---- MODULE Spec2Model ----
(***************************************************************************)
(* Model of route.py: a random topology is created, a fraction of its      *)
(* nodes and edges is concealed, the concealed elements are marked and the *)
(* topology is restored.  Graph objects live on a heap and are referred to *)
(* by reference, as Python objects are; the networkx.Graph methods that    *)
(* route.py calls are modelled by what they do to the node and adjacency   *)
(* dictionaries of the object.                                             *)
(***************************************************************************)
EXTENDS Integers, Sequences, FiniteSets, TLC

VARIABLES pc, heap, G, hide_ratio, G_anonymous, G_marked, G_restored,
          hidden_nodes, hidden_edges, call

vars == <<pc, heap, G, hide_ratio, G_anonymous, G_marked, G_restored,
          hidden_nodes, hidden_edges, call>>

\* ---------------------------------------------------------------- bounds
\* num_nodes ranges over 0..MaxNodes
MaxNodes == 3
\* the float hide_ratio is the variable hide_ratio divided by RatioDen; it
\* ranges from -2/RatioDen to (RatioDen+2)/RatioDen
RatioDen == 4
\* length of the hand-written lists passed to mark_anonymous_routes
MaxList == 1

\* ------------------------------------------------------------- utilities
Range(s) == {s[i] : i \in 1..Len(s)}

NoDuplicates(s) == \A i, j \in 1..Len(s) : i # j => s[i] # s[j]

Restrict(f, S) == [x \in S |-> f[x]]

Pairs(n) == (n * (n - 1)) \div 2

\* the sequences over S of length at most n
SeqsUpTo(S, n) == UNION {[1..k -> S] : k \in 0..n}

\* a set of integers as the ascending sequence of its elements
RECURSIVE Ascending(_)
Ascending(S) ==
    IF S = {} THEN <<>>
    ELSE LET m == CHOOSE x \in S : \A y \in S : x <= y
         IN <<m>> \o Ascending(S \ {m})

\* a set of integer pairs as the sequence of its elements in lexicographic order
RECURSIVE AscendingPairs(_)
AscendingPairs(S) ==
    IF S = {} THEN <<>>
    ELSE LET m == CHOOSE x \in S : \A y \in S :
                      x[1] < y[1] \/ (x[1] = y[1] /\ x[2] <= y[2])
         IN <<m>> \o AscendingPairs(S \ {m})

\* ------------------------------------------------- networkx.Graph objects
\* an attribute dictionary: a function from attribute names to values
EmptyDict == [k \in {} |-> TRUE]

HiddenDict == [k \in {"hidden"} |-> TRUE]

\* nx.Graph(): node maps each node to its attribute dictionary, adj maps each
\* node to the dictionary of its neighbours, whose values are the attribute
\* dictionaries of the edges
EmptyGraph == [node |-> [n \in {} |-> EmptyDict],
               adj  |-> [n \in {} |-> [m \in {} |-> EmptyDict]]]

Nodes(g) == DOMAIN g.node

HasEdge(g, u, v) == u \in DOMAIN g.adj /\ v \in DOMAIN g.adj[u]

\* the edges as unordered pairs
Edges(g) == UNION {{{u, v} : v \in DOMAIN g.adj[u]} : u \in DOMAIN g.adj}

number_of_nodes(g) == Cardinality(Nodes(g))

number_of_edges(g) == Cardinality(Edges(g))

\* list(G.nodes): the nodes in insertion order, which is ascending for a
\* graph built by gnm_random_graph
list_nodes(g) == Ascending(Nodes(g))

\* list(G.edges): each edge once, as the tuple (u, v) whose first element
\* comes first in node order
list_edges(g) ==
    AscendingPairs({e \in Nodes(g) \X Nodes(g) :
                      e[1] <= e[2] /\ HasEdge(g, e[1], e[2])})

\* Graph.add_node: a node already present keeps its attributes and neighbours
add_node(g, n) ==
    IF n \in Nodes(g) THEN g
    ELSE [node |-> (n :> EmptyDict) @@ g.node,
          adj  |-> (n :> [m \in {} |-> EmptyDict]) @@ g.adj]

\* Graph.add_edge: adds the endpoints when absent; the two adjacency entries
\* hold the same attribute dictionary, an existing edge keeps its own
add_edge(g, u, v) ==
    LET g1 == add_node(add_node(g, u), v)
        dd == IF HasEdge(g1, u, v) THEN g1.adj[u][v] ELSE EmptyDict
        a1 == [g1.adj EXCEPT ![u] = (v :> dd) @@ @]
        a2 == [a1 EXCEPT ![v] = (u :> dd) @@ @]
    IN [node |-> g1.node, adj |-> a2]

\* remove_node that deletes the node and its own adjacency only: the
\* neighbours keep their entries for it
remove_node_keeping_edges(g, n) ==
    IF n \notin Nodes(g) THEN g
    ELSE LET keep == Nodes(g) \ {n}
         IN [node |-> Restrict(g.node, keep), adj |-> Restrict(g.adj, keep)]

\* Graph.remove_nodes_from, one node: an absent node is skipped silently; the
\* node goes, and with it every edge incident to it
remove_node(g, n) ==
    IF n \notin Nodes(g) THEN g
    ELSE LET keep == Nodes(g) \ {n}
         IN [node |-> Restrict(g.node, keep),
             adj  |-> [u \in keep |-> Restrict(g.adj[u], DOMAIN g.adj[u] \ {n})]]

\* Graph.remove_edges_from, one edge: an absent edge is skipped silently
remove_edge(g, e) ==
    LET u == e[1]
        v == e[2]
    IN IF ~HasEdge(g, u, v) THEN g
       ELSE LET a1 == [g.adj EXCEPT ![u] = Restrict(@, DOMAIN @ \ {v})]
                a2 == [a1 EXCEPT ![v] = Restrict(@, DOMAIN @ \ {u})]
            IN [node |-> g.node, adj |-> a2]

RECURSIVE add_nodes_from(_, _)
add_nodes_from(g, nodes) ==
    IF nodes = <<>> THEN g
    ELSE add_nodes_from(add_node(g, Head(nodes)), Tail(nodes))

RECURSIVE add_edges_from(_, _)
add_edges_from(g, edges) ==
    IF edges = <<>> THEN g
    ELSE add_edges_from(add_edge(g, Head(edges)[1], Head(edges)[2]), Tail(edges))

\* remove_nodes_from as a loop that removes from the list it iterates over:
\* every second node is skipped
RECURSIVE remove_nodes_skipping(_, _)
remove_nodes_skipping(g, nodes) ==
    IF nodes = <<>> THEN g
    ELSE remove_nodes_skipping(remove_node(g, Head(nodes)),
                               IF Len(nodes) >= 2 THEN Tail(Tail(nodes)) ELSE <<>>)

RECURSIVE remove_nodes_from(_, _)
remove_nodes_from(g, nodes) ==
    IF nodes = <<>> THEN g
    ELSE remove_nodes_from(remove_node(g, Head(nodes)), Tail(nodes))

RECURSIVE remove_edges_from(_, _)
remove_edges_from(g, edges) ==
    IF edges = <<>> THEN g
    ELSE remove_edges_from(remove_edge(g, Head(edges)), Tail(edges))

\* Graph.copy(): a new object with the same nodes, edges and attribute values
\* h is the heap, ref the object copied; the result is the heap with the new
\* object and the reference to it
Graph_copy(h, ref) == [heap |-> Append(h, h[ref]), ref |-> Len(h) + 1]

\* ----------------------------------------------------------- random, int
\* int(x) of the float x = a / b, b > 0: truncation toward zero
int(a, b) == IF a >= 0 THEN a \div b ELSE -((-a) \div b)

\* random.sample raises ValueError when k is negative or larger than the
\* population
sample_raises(population, k) == k < 0 \/ k > Len(population)

\* random.choices in place of random.sample: k positions, repeats allowed
random_choices(population, k) ==
    {[i \in 1..k |-> population[idx[i]]] : idx \in [1..k -> 1..Len(population)]}

\* random.sample(population, k): the elements at k distinct positions, in
\* any order
random_sample(population, k) ==
    {[i \in 1..k |-> population[idx[i]]] :
        idx \in {f \in [1..k -> 1..Len(population)] : NoDuplicates(f)}}

\* ----------------------------------------------------------- route.py
\* create_random_topology: the graphs nx.gnm_random_graph(n, m) can return.
\* One node: that node alone.  m at or above the number of pairs: the
\* complete graph.  Otherwise m distinct pairs of distinct nodes.
create_random_topology(num_nodes, num_edges) ==
    LET V   == 0..(num_nodes - 1)
        G0  == add_nodes_from(EmptyGraph, Ascending(V))
        all == {e \in V \X V : e[1] < e[2]}
    IN IF num_nodes = 1 THEN {G0}
       ELSE IF num_edges >= Pairs(num_nodes)
            THEN {add_edges_from(G0, AscendingPairs(all))}
            ELSE {add_edges_from(G0, AscendingPairs(es)) :
                    es \in {s \in SUBSET all : Cardinality(s) = num_edges}}

\* G_anonymous = G in place of G.copy(): the same object
conceal_no_copy(h, g) == [heap |-> h, ref |-> g]

\* apply_anonymous_routing, lines 36-41: the copy, and the heap once the
\* sampled nodes are removed from the copy
conceal_copy(h, g) == Graph_copy(h, g)

\* int(hide_ratio * G.number_of_nodes()), hide_ratio = r / RatioDen
nodes_count(h, g, r) == int(r * number_of_nodes(h[g]), RatioDen)

conceal_nodes(h, ref, nodes_to_hide) ==
    [h EXCEPT ![ref] = remove_nodes_from(@, nodes_to_hide)]

\* apply_anonymous_routing, lines 44-46
edges_count(h, g, r) == int(r * number_of_edges(h[g]), RatioDen)

conceal_edges(h, ref, edges_to_hide) ==
    [h EXCEPT ![ref] = remove_edges_from(@, edges_to_hide)]

\* G_marked.add_node(node, hidden=True) in place of the item assignment: an
\* absent node is created
set_node_hidden_adding(g, n) ==
    [raised |-> "none",
     g |-> [add_node(g, n) EXCEPT !.node[n] = HiddenDict @@ @]]

\* G_marked.nodes[node]['hidden'] = True: KeyError when the node is absent
set_node_hidden(g, n) ==
    IF n \notin Nodes(g) THEN [raised |-> "KeyError", g |-> g]
    ELSE [raised |-> "none",
          g |-> [g EXCEPT !.node[n] = HiddenDict @@ @]]

\* the mark written to the adjacency entry of the listed direction only
set_edge_hidden_one_way(g, e) ==
    LET u == e[1]
        v == e[2]
    IN IF ~HasEdge(g, u, v) THEN [raised |-> "KeyError", g |-> g]
       ELSE [raised |-> "none", g |-> [g EXCEPT !.adj[u][v] = HiddenDict @@ @]]

\* G_marked.edges[edge]['hidden'] = True: KeyError when the edge is absent;
\* the attribute dictionary is the one both adjacency entries hold
set_edge_hidden(g, e) ==
    LET u == e[1]
        v == e[2]
    IN IF ~HasEdge(g, u, v) THEN [raised |-> "KeyError", g |-> g]
       ELSE [raised |-> "none",
             g |-> [g EXCEPT !.adj[u][v] = HiddenDict @@ @,
                             !.adj[v][u] = HiddenDict @@ g.adj[u][v]]]

\* for node in hidden_nodes: ...
RECURSIVE mark_nodes(_, _)
mark_nodes(g, nodes) ==
    IF nodes = <<>> THEN [raised |-> "none", g |-> g]
    ELSE LET s == set_node_hidden(g, Head(nodes))
         IN IF s.raised # "none" THEN s ELSE mark_nodes(s.g, Tail(nodes))

\* for edge in hidden_edges: ...
RECURSIVE mark_edges(_, _)
mark_edges(g, edges) ==
    IF edges = <<>> THEN [raised |-> "none", g |-> g]
    ELSE LET s == set_edge_hidden(g, Head(edges))
         IN IF s.raised # "none" THEN s ELSE mark_edges(s.g, Tail(edges))

\* mark_anonymous_routes(G, hidden_nodes, hidden_edges): the heap after the
\* call, the exception raised and the returned reference
mark_anonymous_routes(h, g, hn, he) ==
    LET c  == Graph_copy(h, g)
        s1 == mark_nodes(c.heap[c.ref], hn)
        h1 == [c.heap EXCEPT ![c.ref] = s1.g]
        s2 == mark_edges(h1[c.ref], he)
        h2 == [h1 EXCEPT ![c.ref] = s2.g]
    IN IF s1.raised # "none"
       THEN [heap |-> h1, raised |-> s1.raised, G_marked |-> 0]
       ELSE IF s2.raised # "none"
            THEN [heap |-> h2, raised |-> s2.raised, G_marked |-> 0]
            ELSE [heap |-> h2, raised |-> "none", G_marked |-> c.ref]

\* restore_topology without the copy: the nodes and edges are added to
\* G_anonymous itself
restore_in_place(h, g, hn, he) ==
    [heap |-> [h EXCEPT ![g] = add_edges_from(add_nodes_from(@, hn), he)],
     G_restored |-> g]

\* restore_topology(G_anonymous, hidden_nodes, hidden_edges)
restore_topology(h, g, hn, he) ==
    LET c  == Graph_copy(h, g)
        h1 == [c.heap EXCEPT ![c.ref] = add_nodes_from(@, hn)]
        h2 == [h1 EXCEPT ![c.ref] = add_edges_from(@, he)]
    IN [heap |-> h2, G_restored |-> c.ref]

\* ------------------------------------------------------------ the program
NoCall == [op |-> "none", raised |-> "none", before |-> <<>>, target |-> 0,
           num_nodes |-> 0, num_edges |-> 0,
           hidden_nodes |-> <<>>, hidden_edges |-> <<>>]

Init ==
    /\ pc = "start"
    /\ heap = <<>>
    /\ G = 0
    /\ hide_ratio = 0
    /\ G_anonymous = 0
    /\ G_marked = 0
    /\ G_restored = 0
    /\ hidden_nodes = <<>>
    /\ hidden_edges = <<>>
    /\ call = NoCall

\* G = create_random_topology(num_nodes, num_edges)
Create ==
    /\ pc = "start"
    /\ \E n \in 0..MaxNodes, m \in 0..(Pairs(MaxNodes) + 1) :
         \E g \in create_random_topology(n, m) :
           /\ heap' = Append(heap, g)
           /\ G' = Len(heap) + 1
           /\ call' = [NoCall EXCEPT !.op = "create", !.before = heap,
                                     !.num_nodes = n, !.num_edges = m]
    /\ pc' = "created"
    /\ UNCHANGED <<hide_ratio, G_anonymous, G_marked, G_restored, hidden_nodes, hidden_edges>>

\* the call of apply_anonymous_routing raises ValueError: nothing is bound
ApplyRaises(h, r) ==
    /\ heap' = h
    /\ hide_ratio' = r
    /\ call' = [NoCall EXCEPT !.op = "apply", !.before = heap, !.target = G,
                              !.raised = "ValueError"]
    /\ pc' = "done"
    /\ UNCHANGED <<G_anonymous, hidden_nodes, hidden_edges>>

\* G_anonymous, hidden_nodes, hidden_edges = apply_anonymous_routing(G, hide_ratio)
\* with hide_ratio = r / RatioDen and every choice random.sample can make
Apply ==
    /\ pc = "created"
    /\ \E r \in (-2)..(RatioDen + 2) :
         LET c  == conceal_copy(heap, G)
             kN == nodes_count(c.heap, G, r)
         IN IF sample_raises(list_nodes(c.heap[G]), kN)
            THEN ApplyRaises(c.heap, r)
            ELSE \E nodes_to_hide \in random_sample(list_nodes(c.heap[G]), kN) :
                   LET h1 == conceal_nodes(c.heap, c.ref, nodes_to_hide)
                       kE == edges_count(h1, G, r)
                   IN IF sample_raises(list_edges(h1[G]), kE)
                      THEN ApplyRaises(h1, r)
                      ELSE \E edges_to_hide \in random_sample(list_edges(h1[G]), kE) :
                             /\ heap' = conceal_edges(h1, c.ref, edges_to_hide)
                             /\ hide_ratio' = r
                             /\ call' = [NoCall EXCEPT !.op = "apply",
                                            !.before = heap, !.target = G]
                             /\ G_anonymous' = c.ref
                             /\ hidden_nodes' = nodes_to_hide
                             /\ hidden_edges' = edges_to_hide
                             /\ pc' = "concealed"
    /\ UNCHANGED <<G, G_marked, G_restored>>

\* the arguments mark_anonymous_routes is called with: before concealment any
\* short lists of nodes and of node pairs, after it the concealment's lists,
\* on the original graph or on the concealed one
MarkArguments ==
    IF pc = "created"
    THEN {<<G, hn, he>> :
            hn \in SeqsUpTo(0..(MaxNodes - 1), MaxList),
            he \in SeqsUpTo({e \in (0..(MaxNodes - 1)) \X (0..(MaxNodes - 1)) :
                                e[1] # e[2]}, MaxList)}
    ELSE {<<G, hidden_nodes, hidden_edges>>,
          <<G_anonymous, hidden_nodes, hidden_edges>>}

\* G_marked = mark_anonymous_routes(target, hn, he)
Mark ==
    /\ pc \in {"created", "concealed"}
    /\ \E a \in MarkArguments :
         LET o == mark_anonymous_routes(heap, a[1], a[2], a[3])
         IN /\ heap' = o.heap
            /\ G_marked' = o.G_marked
            /\ call' = [NoCall EXCEPT !.op = "mark", !.before = heap,
                                      !.target = a[1], !.raised = o.raised,
                                      !.hidden_nodes = a[2], !.hidden_edges = a[3]]
    /\ pc' = "done"
    /\ UNCHANGED <<G, hide_ratio, G_anonymous, G_restored, hidden_nodes, hidden_edges>>

\* G_restored = restore_topology(G_anonymous, hidden_nodes, hidden_edges)
Restore ==
    /\ pc = "concealed"
    /\ LET o == restore_topology(heap, G_anonymous, hidden_nodes, hidden_edges)
       IN /\ heap' = o.heap
          /\ G_restored' = o.G_restored
          /\ call' = [NoCall EXCEPT !.op = "restore", !.before = heap,
                                    !.target = G_anonymous,
                                    !.hidden_nodes = hidden_nodes,
                                    !.hidden_edges = hidden_edges]
    /\ pc' = "done"
    /\ UNCHANGED <<G, hide_ratio, G_anonymous, G_marked, hidden_nodes, hidden_edges>>

Next == Create \/ Apply \/ Mark \/ Restore

Spec == Init /\ [][Next]_vars

\* ------------------------------------------------------------ properties
\* the 'hidden' attribute of a node, and of the adjacency entry adj[u][v]
NodeHidden(g, n) == "hidden" \in DOMAIN g.node[n] /\ g.node[n]["hidden"]

EdgeHidden(g, u, v) == "hidden" \in DOMAIN g.adj[u][v] /\ g.adj[u][v]["hidden"]

Unmarked(g) ==
    /\ \A n \in Nodes(g) : ~NodeHidden(g, n)
    /\ \A u \in DOMAIN g.adj : \A v \in DOMAIN g.adj[u] : ~EdgeHidden(g, u, v)

\* a list of edge tuples as a set of unordered pairs
Unordered(edges) == {{e[1], e[2]} : e \in Range(edges)}

RatioInRange == hide_ratio \in 0..RatioDen

Returned(op) == call.op = op /\ call.raised = "none"

\* the graph an argument referred to when the call was made
Was(ref) == call.before[ref]

\* C1: after restore_topology on the result of apply_anonymous_routing with a
\* ratio in [0,1], the restored graph has the node set and the edge set of G
RoundTrip ==
    (Returned("restore") /\ RatioInRange) =>
        /\ Nodes(heap[G_restored]) = Nodes(heap[G])
        /\ Edges(heap[G_restored]) = Edges(heap[G])

\* C2: for a ratio in [0,1] apply_anonymous_routing returns floor(ratio*|V|)
\* hidden nodes and floor(ratio*|E|) hidden edges, without duplicates, all of
\* them nodes and edges of G
ConcealmentCounts ==
    (call.op = "apply" /\ RatioInRange) =>
        /\ call.raised = "none"
        /\ Len(hidden_nodes) = (hide_ratio * number_of_nodes(heap[G])) \div RatioDen
        /\ Len(hidden_edges) = (hide_ratio * number_of_edges(heap[G])) \div RatioDen
        /\ NoDuplicates(hidden_nodes)
        /\ NoDuplicates(hidden_edges)
        /\ Cardinality(Unordered(hidden_edges)) = Len(hidden_edges)
        /\ Range(hidden_nodes) \subseteq Nodes(heap[G])
        /\ Unordered(hidden_edges) \subseteq Edges(heap[G])

ConcealmentCountsWitness ==
    /\ Returned("apply")
    /\ hide_ratio \in 1..(RatioDen - 1)
    /\ Len(hidden_nodes) >= 2
    /\ Len(hidden_edges) >= 2
    /\ Len(hidden_edges) < number_of_edges(heap[G])

\* C3: apply_anonymous_routing leaves G with the node set and the edge set it
\* had before the call; what it returns is another object
ConcealmentNonMutating ==
    call.op = "apply" =>
        /\ Nodes(heap[G]) = Nodes(Was(G))
        /\ Edges(heap[G]) = Edges(Was(G))
        /\ Returned("apply") => G_anonymous # G

ConcealmentNonMutatingWitness ==
    /\ Returned("apply")
    /\ hidden_nodes # <<>>
    /\ hidden_edges # <<>>
    /\ Edges(heap[G_anonymous]) # Edges(heap[G])

\* C4: apply_anonymous_routing fails for every ratio outside [0,1] and
\* returns nothing
RatioOutsideRangeFails ==
    (call.op = "apply" /\ ~RatioInRange) =>
        /\ call.raised = "ValueError"
        /\ G_anonymous = 0

\* C5: create_random_topology fails when num_edges exceeds
\* num_nodes*(num_nodes-1)/2
TooManyEdgesFails ==
    (call.op = "create" /\ call.num_edges > Pairs(call.num_nodes)) =>
        call.raised # "none"

\* C6: mark_anonymous_routes, given nodes and edges of G, returns a graph with
\* the nodes and edges of G where exactly the listed nodes and the listed
\* edges (in either endpoint order) are hidden, and leaves G unmarked
AnnotationCorrect ==
    (/\ call.op = "mark"
     /\ Range(call.hidden_nodes) \subseteq Nodes(Was(call.target))
     /\ \A e \in Range(call.hidden_edges) : HasEdge(Was(call.target), e[1], e[2])) =>
        /\ call.raised = "none"
        /\ G_marked # 0
        /\ G_marked # call.target
        /\ LET M == heap[G_marked]
               T == heap[call.target]
           IN /\ Nodes(M) = Nodes(T)
              /\ Edges(M) = Edges(T)
              /\ \A n \in Nodes(M) : NodeHidden(M, n) <=> n \in Range(call.hidden_nodes)
              /\ \A u \in DOMAIN M.adj : \A v \in DOMAIN M.adj[u] :
                    EdgeHidden(M, u, v) <=> {u, v} \in Unordered(call.hidden_edges)
              /\ Unmarked(T)
              /\ T = Was(call.target)

AnnotationCorrectWitness ==
    /\ Returned("mark")
    /\ call.hidden_nodes # <<>>
    /\ \E i \in 1..Len(call.hidden_edges) :
         call.hidden_edges[i][1] > call.hidden_edges[i][2]
    /\ Edges(heap[G_marked]) # Unordered(call.hidden_edges)

\* C7: with hide_ratio = 1 every node and every edge of G is hidden and the
\* concealed graph has no node and no edge; the edge removal does not fail
RatioOneHidesAll ==
    (call.op = "apply" /\ hide_ratio = RatioDen) =>
        /\ call.raised = "none"
        /\ Range(hidden_nodes) = Nodes(heap[G])
        /\ Unordered(hidden_edges) = Edges(heap[G])
        /\ Nodes(heap[G_anonymous]) = {}
        /\ Edges(heap[G_anonymous]) = {}

RatioOneHidesAllWitness ==
    /\ Returned("apply")
    /\ hide_ratio = RatioDen
    /\ Len(hidden_nodes) >= 3
    /\ Len(hidden_edges) >= 2

\* C8: mark_anonymous_routes fails with KeyError and returns no graph when a
\* listed node or a listed edge is not in the graph; the graph is unchanged
MarkMissingFails ==
    (/\ call.op = "mark"
     /\ \/ ~(Range(call.hidden_nodes) \subseteq Nodes(Was(call.target)))
        \/ \E e \in Range(call.hidden_edges) : ~HasEdge(Was(call.target), e[1], e[2])) =>
        /\ call.raised = "KeyError"
        /\ G_marked = 0
        /\ heap[call.target] = Was(call.target)

\* every listed node is there and is marked on the copy before the lookup
\* of a missing edge fails
MarkMissingFailsWitness ==
    /\ call.op = "mark"
    /\ call.hidden_nodes # <<>>
    /\ Range(call.hidden_nodes) \subseteq Nodes(Was(call.target))
    /\ call.hidden_edges # <<>>
    /\ call.raised = "KeyError"

\* the call on the concealed graph in place of the original
MarkOnConcealedFails ==
    /\ call.op = "mark"
    /\ call.target = G_anonymous
    /\ call.raised = "KeyError"

\* C9: the concealed graph has the nodes of G that are not hidden and the
\* edges of G that have no hidden endpoint and are not hidden
ConcealedStructure ==
    (Returned("apply") /\ RatioInRange) =>
        /\ Nodes(heap[G_anonymous]) = Nodes(heap[G]) \ Range(hidden_nodes)
        /\ Edges(heap[G_anonymous]) =
             {e \in Edges(heap[G]) : /\ e \cap Range(hidden_nodes) = {}
                                     /\ e \notin Unordered(hidden_edges)}

\* hidden edges with no, with one and with two hidden endpoints
ConcealedStructureWitness ==
    /\ Returned("apply")
    /\ RatioInRange
    /\ \E e \in Unordered(hidden_edges) : e \cap Range(hidden_nodes) = {}

ConcealedStructureWitnessOneTwo ==
    /\ Returned("apply")
    /\ RatioInRange
    /\ \E e \in Unordered(hidden_edges) : Cardinality(e \cap Range(hidden_nodes)) = 1
    /\ \E e \in Unordered(hidden_edges) : e \subseteq Range(hidden_nodes)

\* C10: the restored graph has the nodes of G and the edges of the concealed
\* graph plus the hidden edges; the edges of G it lacks are those with a
\* hidden endpoint that were not hidden edges; G_anonymous is left as it was
RestorationRecovers ==
    (Returned("restore") /\ RatioInRange) =>
        LET R    == heap[G_restored]
            lost == {e \in Edges(heap[G]) : /\ e \cap Range(hidden_nodes) # {}
                                            /\ e \notin Unordered(hidden_edges)}
        IN /\ Nodes(R) = Nodes(heap[G])
           /\ Edges(R) = Edges(heap[G_anonymous]) \cup Unordered(hidden_edges)
           /\ Edges(R) \subseteq Edges(heap[G])
           /\ Edges(heap[G]) \ Edges(R) = lost
           /\ (Edges(R) = Edges(heap[G])) <=> (lost = {})
           /\ G_restored # G_anonymous
           /\ heap[G_anonymous] = Was(G_anonymous)

RestorationRecoversWitness ==
    /\ Returned("restore")
    /\ RatioInRange
    /\ hidden_edges # <<>>
    /\ Edges(heap[G_restored]) # Edges(heap[G])
    /\ Edges(heap[G_restored]) # Edges(heap[G_anonymous])

====
